---- MODULE Spec2Model ----
(***************************************************************************)
(* Model of model_validation.ipynb as a notebook kernel runs it: one code  *)
(* cell at a time, in any order, any number of times, over module-level    *)
(* names (df, df_poly, X, y, X_train, y_train, lr, the lists ...). Every   *)
(* code cell that binds or mutates one of these names is an action; the    *)
(* cells that only display a value (lines 141-142, 205-209, 410, 419, 444, *)
(* 515, 610, 620, 667, 677) change nothing and are not actions.            *)
(*                                                                         *)
(* The literals of the notebook (100 repetitions, 5000 and 1000 sampled    *)
(* rows, 5 folds) and the rows of data/king_county.csv are inputs here,    *)
(* drawn from small sets. A row is a row position 0..n-1; a row whose      *)
(* cells are NaN makes sklearn's fit / predict / score / fit_transform     *)
(* raise ValueError, which is how a model failure arises in this code.     *)
(***************************************************************************)
EXTENDS Integers, Sequences, FiniteSets, TLC

\* ------------------------------------------------------------------ bounds
MaxN == 2          \* most rows of the csv under Spec
MaxSample == 2     \* largest n passed to DataFrame.sample
MaxReps == 2       \* most repetitions of a resampling loop
MaxDraws == 4      \* most rows a run of each resampling loop samples, together
MaxK == 3          \* largest n_splits under Spec
MaxRuns == 3       \* most cell executions in one behaviour
MaxFoldN == 7      \* most rows of the csv under SpecFold
MaxCleanN == 3     \* most rows of the csv under SpecClean

\* ------------------------------------------------------- program constants
TestDenom == 5         \* test_size=0.2 is one row in five
DefaultTestDenom == 4  \* test_size=None is sklearn's 0.25, one row in four

\* ------------------------------------------------------------------ values
None == "none"
NoRow == 0 - 1     \* sample_point is not bound yet
NoModel == 0       \* lr / lr_poly is not bound yet
NaN == 0 - 1       \* the nan that np.mean and np.var give for no values

\* The value of row r of the price column when it is a number.
Price(r) == 2 * r + 1

Rows(d) == 0 .. (Len(d) - 1)

\* The rows of a .. b - 1, in order.
Range(a, b) == [j \in 1 .. (b - a) |-> a + j - 1]

\* The files of n rows: a row holds numbers only (0), NaN in the first 12
\* columns, price and features alike (1), or NaN only in a column after the
\* 12th (2).
Datasets(n) == [1 .. n -> {0, 1, 2}]

\* The columns a frame can hold: the first 12 of the csv (df.iloc[:, :12],
\* line 94), all of the csv, the two of df[['bedrooms', 'sqft_living']],
\* the output of PolynomialFeatures, the price column alone.
Cols == {"first12", "all", "two", "poly", "price"}

\* A name bound to no frame, and a frame: the rows it holds, in its order
\* (a sample holds a row as often as it was drawn), and its columns.
NoFrame == [rows |-> <<>>, cols |-> "unbound"]

Frame(rows, cols) == [rows |-> rows, cols |-> cols]

IsBound(f) == f.cols # "unbound"

\* A pair (X, y) as fit and score receive it: the rows and columns of X and
\* the rows whose price y holds.
NoData == [rows |-> <<>>, cols |-> "unbound", y |-> <<>>]

Data(Xf, yf) == [rows |-> Xf.rows, cols |-> Xf.cols, y |-> yf.rows]

\* Whether row r of file d holds NaN in the columns cols.
IsNaN(d, r, cols) == d[r + 1] = 1 \/ (d[r + 1] = 2 /\ cols = "all")

RECURSIVE SeqSum(_)
SeqSum(s) == IF s = <<>> THEN 0 ELSE Head(s) + SeqSum(Tail(s))

\* check_array of sklearn: an array holding NaN is rejected, in X or in y.
HasNaN(d, data) ==
    \/ \E j \in 1 .. Len(data.rows) : IsNaN(d, data.rows[j], data.cols)
    \/ \E j \in 1 .. Len(data.y) : IsNaN(d, data.y[j], "price")

\* PolynomialFeatures.fit_transform(df.drop('price', axis=1)) needs at least
\* one row and no NaN in the columns df holds.
PolyFeaturesOK(d, cols) ==
    Len(d) >= 1 /\ \A r \in Rows(d) : ~IsNaN(d, r, cols)

Variants == {"simple", "poly"}

\* --------------------------------------------------------------- the model
\* A LinearRegression never fit holds no training data.
Unfit == NoData

\* LinearRegression.fit: at least one row, no NaN.
FitOK(d, data) == Len(data.rows) >= 1 /\ ~HasNaN(d, data)

\* What lr.fit leaves as the data the instance is fit on, given the data it
\* was fit on before: the data passed, whatever it held.
lr_fit_skipped(old, data) == old

lr_fit(old, data) == data

\* The value every feature column holds in row r: rows 0 and 2 have the same
\* features and different prices, rows 0 and 1 different features.
Feature(r) == r % 2

RECURSIVE Factorial(_)
Factorial(n) == IF n <= 1 THEN 1 ELSE n * Factorial(n - 1)

\* Predictions are kept times Scale, a multiple of the number of rows any
\* group of a sample can have, so that each is a whole number.
Scale == Factorial(MaxSample)

\* The sum of the prices y holds at the positions pos.
GroupSum(ys, pos) ==
    SeqSum([j \in 1 .. Len(ys) |-> IF j \in pos THEN Price(ys[j]) ELSE 0])

\* lr.predict at one row, times Scale: ordinary least squares with an
\* intercept, minimum norm where the columns are collinear, as sklearn
\* solves it. Every feature column (and every polynomial of them) holds
\* Feature(r), 0 or 1, so the fit is the mean price of the training rows
\* with the features of the row predicted; when no training row has them
\* the training rows all have the same features, the coefficients are 0
\* and the prediction is the intercept, the mean price of all of them.
PredictAt(fit, r) ==
    LET same == {j \in 1 .. Len(fit.rows) : Feature(fit.rows[j]) = Feature(r)}
        grp == IF same = {} THEN 1 .. Len(fit.rows) ELSE same
    IN  (Scale \div Cardinality(grp)) * GroupSum(fit.y, grp)

\* np.sqrt(mean_squared_error(y, y_hat)), kept as the sum over the rows
\* scored of the squared residual y - y_hat, times Scale^2: the squared
\* rmse times the number of rows scored and Scale^2.
ResidSq(fit, on) ==
    SeqSum([j \in 1 .. Len(on.rows) |->
              LET e == Scale * Price(on.y[j]) - PredictAt(fit, on.rows[j])
              IN  e * e])

\* lr.score(X, y): the R^2 of the model fit on the data `fit`, measured on
\* the data `on`, kept as that pair.
Score(fit, on) == [fit |-> fit, on |-> on]

\* np.mean times the length, and np.var times the squared length.
np_mean(xs) == IF xs = <<>> THEN NaN ELSE SeqSum(xs)

np_var_nomean(xs) ==
    IF xs = <<>> THEN NaN
    ELSE Len(xs) * SeqSum([j \in 1 .. Len(xs) |-> xs[j] * xs[j]])

np_var(xs) ==
    IF xs = <<>> THEN NaN
    ELSE Len(xs) * SeqSum([j \in 1 .. Len(xs) |-> xs[j] * xs[j]])
         - SeqSum(xs) * SeqSum(xs)

\* ------------------------------------------------------------------- KFold
\* KFold._iter_test_indices: n // k positions per fold, one more in the
\* first n % k folds, folds taken in order of position.
fold_sizes_last(n, k) ==
    [f \in 1 .. k |-> (n \div k) + (IF f > k - (n % k) THEN 1 ELSE 0)]

fold_sizes(n, k) ==
    [f \in 1 .. k |-> (n \div k) + (IF f <= n % k THEN 1 ELSE 0)]

RECURSIVE FoldStart(_, _, _)
FoldStart(n, k, f) ==
    IF f = 0 THEN 0 ELSE FoldStart(n, k, f - 1) + fold_sizes(n, k)[f]

\* test_ind of the fold of index f (0-based): positions in X.
TestInd(n, k, f) == Range(FoldStart(n, k, f), FoldStart(n, k, f + 1))

\* train_ind of the fold of index f: every other position, in order.
TrainInd(n, k, f) ==
    Range(0, FoldStart(n, k, f)) \o Range(FoldStart(n, k, f + 1), n)

\* X.iloc[ind] / y.iloc[ind]: the rows held at the positions ind.
iloc(rows, ind) == [j \in 1 .. Len(ind) |-> rows[ind[j] + 1]]

DataAt(Xf, yf, ind) ==
    [rows |-> iloc(Xf.rows, ind), cols |-> Xf.cols, y |-> iloc(yf.rows, ind)]

\* -------------------------------------------------------- train_test_split
\* ceil(test_size * n) test rows, the rest train (for the n of the bounds
\* the float product test_size * n rounds as the fraction does).
NTest(n, denom) == (n + denom - 1) \div denom
NTrain(n, denom) == n - NTest(n, denom)

\* train_test_split raises ValueError when X and y differ in length and when
\* no row would be left to train on (no rows at all included).
SplitOK(Xf, yf, denom) ==
    /\ Len(Xf.rows) = Len(yf.rows)
    /\ NTrain(Len(Xf.rows), denom) >= 1

\* ------------------------------------------------------------------- state
VARIABLES
    csv,           \* the rows of data/king_county.csv: row r at position r + 1
    K,             \* n_splits
    SampleSize,    \* n of DataFrame.sample(n, replace=True), for each
                   \* resampling cell
    Reps,          \* the range of the resampling loops
    stream,        \* the outputs of the global generator seeded with 42,
                   \* as far as they have been drawn
    rngPos,        \* how far the global generator has advanced
    perm,          \* the permutation the generator of random_state=42
                   \* gives train_test_split, once it has been drawn
    df,            \* the columns df holds (its rows are the csv's)
    df_poly,       \* "unbound", or whether df_poly holds a price column
    X, y,          \* the frames bound to X and y
    xy_train,      \* X_train and y_train, always bound together
    xy_test,       \* X_test and y_test, always bound together
    X_poly,        \* the frame bound to X_poly
    lr, lr_poly,   \* the model instances bound to lr and lr_poly
    models,        \* every LinearRegression instance constructed
    pc,            \* "idle", "eval" or "cv"
    variant,       \* which of the two cells of a kind is running
    i,             \* the loop index
    sample_point,  \* the query row
    r_2,           \* r_2
    rmse,          \* simple_rmse and complex_rmse
    point_preds,   \* point_preds and point_preds_comp
    train_r2, test_r2,
    train_ind, test_ind,
    outcome,       \* how the last cell run ended
    run,           \* the number of cell runs started
    pre,           \* <<the module-level state when the last cell run began>>
    made,          \* models constructed by the current cell run
    drew,          \* samples drawn by the current cell run's loop
    folds,         \* the test_ind of every fold of the current k-fold run
    ref            \* <<the result of the first completed run>> of each
                   \* resampling cell, for each frame it can sample

vars == <<csv, K, SampleSize, Reps, stream, rngPos, perm, df, df_poly, X, y,
          xy_train, xy_test, X_poly, lr, lr_poly, models, pc, variant, i,
          sample_point, r_2, rmse, point_preds, train_r2, test_r2, train_ind,
          test_ind, outcome, run, pre, made, drew, folds, ref>>

inputs == <<csv, K, SampleSize, Reps>>

\* The names the resampling cells bind besides X, y and lr.
evalNames == <<sample_point, r_2, rmse, point_preds>>

\* The names the k-fold cells bind besides X_train .. y_test.
cvNames == <<train_r2, test_r2, train_ind, test_ind, folds>>

loopNames == <<pc, variant, i>>

\* What a caller can read between two cell runs.
Globals ==
    [df |-> df, df_poly |-> df_poly, X |-> X, y |-> y, xy_train |-> xy_train,
     xy_test |-> xy_test, X_poly |-> X_poly, rngPos |-> rngPos,
     sample_point |-> sample_point, r_2 |-> r_2, rmse |-> rmse,
     point_preds |-> point_preds, lr |-> lr, lr_poly |-> lr_poly,
     models |-> models, train_r2 |-> train_r2, test_r2 |-> test_r2,
     train_ind |-> train_ind, test_ind |-> test_ind]

NoOutcome == [op |-> None, variant |-> None, status |-> None, at |-> None]

\* The frames a resampling cell can sample: df with either set of columns,
\* and df_poly.
RefKeys == {"first12", "all", "poly"}

\* The kernel after the imports and the first run of the cell of lines
\* 92-95: the generator seeded, df bound to the first 12 columns.
InitGlobals ==
    /\ stream = <<>>
    /\ rngPos = 0
    /\ perm = <<>>
    /\ df = "first12"
    /\ df_poly = "unbound"
    /\ X = NoFrame
    /\ y = NoFrame
    /\ xy_train = NoData
    /\ xy_test = NoData
    /\ X_poly = NoFrame
    /\ lr = NoModel
    /\ lr_poly = NoModel
    /\ models = <<>>
    /\ pc = "idle"
    /\ variant = None
    /\ i = 0
    /\ sample_point = NoRow
    /\ r_2 = <<>>
    /\ rmse = [v \in Variants |-> <<>>]
    /\ point_preds = [v \in Variants |-> <<>>]
    /\ train_r2 = <<>>
    /\ test_r2 = <<>>
    /\ train_ind = <<>>
    /\ test_ind = <<>>
    /\ outcome = NoOutcome
    /\ run = 0
    /\ pre = <<>>
    /\ made = 0
    /\ drew = 0
    /\ folds = <<>>
    /\ ref = [k \in RefKeys |-> <<>>]

Init ==
    /\ \E n \in 0 .. MaxN : csv \in Datasets(n)
    /\ K \in 1 .. MaxK
    /\ SampleSize \in [Variants -> 0 .. MaxSample]
    /\ Reps \in 1 .. MaxReps
    /\ (SampleSize["simple"] + SampleSize["poly"]) * Reps <= MaxDraws
    /\ InitGlobals

\* ------------------------------------------------------ the global generator
\* np.random.seed: the generator restarts at the head of the seed's stream.
np_random_seed_kept(pos) == pos

np_random_seed(pos) == 0

\* The cnt next outputs of the generator, each a row of a frame of n rows:
\* what was drawn before at a position is drawn there again.
Draws(n, pos, cnt) ==
    {s \in [1 .. cnt -> 0 .. (n - 1)] :
        \A j \in 1 .. cnt : (pos + j <= Len(stream)) => s[j] = stream[pos + j]}

Extend(pos, s) ==
    IF pos + Len(s) <= Len(stream) THEN stream
    ELSE SubSeq(stream, 1, pos) \o s

\* The permutations of n rows train_test_split(random_state=42) can use:
\* any, and the one used before once one was.
Perms(n) ==
    {p \in [1 .. n -> 0 .. (n - 1)] :
        /\ \A a, b \in 1 .. n : a # b => p[a] # p[b]
        /\ perm # <<>> => p = perm}

\* name = []: the name is bound to a new, empty list, whatever it held.
empty_list(old) == <<>>

\* The rows a sequence of rows holds.
RowsOf(s) == {s[j] : j \in 1 .. Len(s)}

\* A new, unfit LinearRegression().
NewModel == [fit |-> Unfit, users |-> <<>>]

\* The instance that name = LinearRegression() binds, given the instances
\* made so far and the one the name is bound to: a new one.
LinearRegression_reused(ms, cur) == IF cur = NoModel THEN Len(ms) + 1 ELSE cur

LinearRegression(ms, cur) == Len(ms) + 1

\* The instances after instance id was bound: one more when id is new.
Bound(ms, id) == IF id = Len(ms) + 1 THEN Append(ms, NewModel) ELSE ms

\* One pass of a loop, or one cell, passing an instance to fit.
User(op, v, r, it) == [op |-> op, variant |-> v, run |-> r, it |-> it]

Ended(op, v, st, at) == [op |-> op, variant |-> v, status |-> st, at |-> at]

\* df.price and df.drop('price', axis=1) / df[[...]] / the output of
\* fit_transform on it: every row of the csv, in order.
PriceOf(d) == Frame(Range(0, Len(d)), "price")

AllRows(d, cols) == Frame(Range(0, Len(d)), cols)

\* ------------------------------------------------------- the loading cells
\* Lines 92-95: seed the global generator, read the csv, keep 12 columns.
LoadData ==
    /\ pc = "idle"
    /\ run < MaxRuns
    /\ run' = run + 1
    /\ pre' = <<Globals>>
    /\ made' = 0
    /\ drew' = 0
    /\ rngPos' = np_random_seed(rngPos)
    /\ df' = "first12"
    /\ outcome' = Ended("load", None, "done", None)
    /\ UNCHANGED <<inputs, stream, perm, df_poly, X, y, xy_train, xy_test,
                   X_poly, lr, lr_poly, models, loopNames, evalNames,
                   cvNames, ref>>

\* Lines 353-356 and 472-473: read the csv again, every column.
Reload ==
    /\ pc = "idle"
    /\ run < MaxRuns
    /\ run' = run + 1
    /\ pre' = <<Globals>>
    /\ made' = 0
    /\ drew' = 0
    /\ df' = "all"
    /\ outcome' = Ended("reload", None, "done", None)
    /\ UNCHANGED <<inputs, stream, rngPos, perm, df_poly, X, y, xy_train,
                   xy_test, X_poly, lr, lr_poly, models, loopNames,
                   evalNames, cvNames, ref>>

\* Lines 151-166: read the csv again, every column, and build df_poly with
\* its price column. fit_transform raises on NaN and on no rows, after df was
\* rebound and before df_poly is.
PolyPrep ==
    /\ pc = "idle"
    /\ run < MaxRuns
    /\ run' = run + 1
    /\ pre' = <<Globals>>
    /\ made' = 0
    /\ drew' = 0
    /\ df' = "all"
    /\ IF PolyFeaturesOK(csv, "all")
       THEN /\ df_poly' = "price"
            /\ outcome' = Ended("polyprep", None, "done", None)
       ELSE /\ outcome' = Ended("polyprep", None, "failed", "fit_transform")
            /\ UNCHANGED df_poly
    /\ UNCHANGED <<inputs, stream, rngPos, perm, X, y, xy_train, xy_test,
                   X_poly, lr, lr_poly, models, loopNames, evalNames,
                   cvNames, ref>>

\* Lines 537-546: seed the global generator, bind y and a two-column X.
SeedXY ==
    /\ pc = "idle"
    /\ run < MaxRuns
    /\ run' = run + 1
    /\ pre' = <<Globals>>
    /\ made' = 0
    /\ drew' = 0
    /\ rngPos' = np_random_seed(rngPos)
    /\ y' = PriceOf(csv)
    /\ X' = AllRows(csv, "two")
    /\ outcome' = Ended("seedxy", None, "done", None)
    /\ UNCHANGED <<inputs, stream, perm, df, df_poly, xy_train, xy_test,
                   X_poly, lr, lr_poly, models, loopNames, evalNames,
                   cvNames, ref>>

\* Lines 579-580: X is df without its price column, y the price column.
BindXY ==
    /\ pc = "idle"
    /\ run < MaxRuns
    /\ run' = run + 1
    /\ pre' = <<Globals>>
    /\ made' = 0
    /\ drew' = 0
    /\ X' = AllRows(csv, df)
    /\ y' = PriceOf(csv)
    /\ outcome' = Ended("bindxy", None, "done", None)
    /\ UNCHANGED <<inputs, stream, rngPos, perm, df, df_poly, xy_train,
                   xy_test, X_poly, lr, lr_poly, models, loopNames,
                   evalNames, cvNames, ref>>

\* Lines 629-637: df_poly is rebound to the polynomial features of df, with
\* no price column, then X to df_poly and y to the price column.
\* fit_transform raises before any of the three is bound.
PolyPrep2 ==
    /\ pc = "idle"
    /\ run < MaxRuns
    /\ run' = run + 1
    /\ pre' = <<Globals>>
    /\ made' = 0
    /\ drew' = 0
    /\ IF PolyFeaturesOK(csv, df)
       THEN /\ df_poly' = "noprice"
            /\ X' = AllRows(csv, "poly")
            /\ y' = PriceOf(csv)
            /\ outcome' = Ended("polyprep2", None, "done", None)
       ELSE /\ outcome' = Ended("polyprep2", None, "failed", "fit_transform")
            /\ UNCHANGED <<df_poly, X, y>>
    /\ UNCHANGED <<inputs, stream, rngPos, perm, df, xy_train, xy_test,
                   X_poly, lr, lr_poly, models, loopNames, evalNames,
                   cvNames, ref>>

\* Lines 482-489: X_poly is bound to the cubic features of df, then y to
\* the price column. fit_transform raises before either is bound.
PolyPrep3 ==
    /\ pc = "idle"
    /\ run < MaxRuns
    /\ run' = run + 1
    /\ pre' = <<Globals>>
    /\ made' = 0
    /\ drew' = 0
    /\ IF PolyFeaturesOK(csv, df)
       THEN /\ X_poly' = AllRows(csv, "poly")
            /\ y' = PriceOf(csv)
            /\ outcome' = Ended("polyprep3", None, "done", None)
       ELSE /\ outcome' = Ended("polyprep3", None, "failed", "fit_transform")
            /\ UNCHANGED <<X_poly, y>>
    /\ UNCHANGED <<inputs, stream, rngPos, perm, df, df_poly, X, xy_train,
                   xy_test, lr, lr_poly, models, loopNames, evalNames,
                   cvNames, ref>>

\* --------------------------------------------- the resampling cells (evaluate)
\* What the cell leaves for the cells that print the summary (lines 141-142
\* and 205-209): the records and the figures computed from them.
Summary(v) ==
    [sample_point |-> sample_point,
     r_2 |-> r_2,
     rmse |-> rmse[v],
     point_preds |-> point_preds[v],
     mean_rmse |-> np_mean(rmse[v]),
     var_preds |-> np_var(point_preds[v])]

\* The columns of the frame a resampling cell samples: df (lines 110, 118)
\* or df_poly (lines 177, 184).
SampledCols(v) == IF v = "poly" THEN "poly" ELSE df

\* Lines 104-114 and 175-181: seed the global generator, draw the query row,
\* empty the accumulators. In the second cell df_poly raises NameError when
\* it is not bound and drop('price') raises KeyError when it has no such
\* column; DataFrame.sample(1) of no rows raises ValueError. All three
\* come after the seed and before the lists are rebound.
EvalBegin(v) ==
    /\ pc = "idle"
    /\ run < MaxRuns
    /\ run' = run + 1
    /\ pre' = <<Globals>>
    /\ made' = 0
    /\ drew' = 0
    /\ variant' = v
    /\ i' = 0
    /\ IF v = "poly" /\ df_poly # "price"
       THEN /\ rngPos' = np_random_seed(rngPos)
            /\ pc' = "idle"
            /\ outcome' = Ended("eval", v, "failed",
                                IF df_poly = "unbound" THEN "df_poly" ELSE "drop")
            /\ UNCHANGED <<stream, evalNames>>
       ELSE IF Len(csv) = 0
       THEN /\ rngPos' = np_random_seed(rngPos)
            /\ pc' = "idle"
            /\ outcome' = Ended("eval", v, "failed", "sample_point")
            /\ UNCHANGED <<stream, evalNames>>
       ELSE \E s \in Draws(Len(csv), np_random_seed(rngPos), 1) :
            /\ stream' = Extend(np_random_seed(rngPos), s)
            /\ rngPos' = np_random_seed(rngPos) + 1
            /\ sample_point' = s[1]
            /\ r_2' = empty_list(r_2)
            /\ rmse' = [rmse EXCEPT ![v] = empty_list(@)]
            /\ point_preds' = [point_preds EXCEPT ![v] = empty_list(@)]
            /\ pc' = "eval"
            /\ outcome' = Ended("eval", v, "running", None)
    /\ UNCHANGED <<inputs, perm, df, df_poly, X, y, xy_train, xy_test, X_poly,
                   lr, lr_poly, models, cvNames, ref>>

\* Lines 118-131 and 184-196, one pass of the loop: draw the sample, bind y
\* and X to it, make a new model, fit it, record the scores, predict the
\* query row.
EvalRep ==
    /\ pc = "eval"
    /\ i < Reps
    /\ \E s \in Draws(Len(csv), rngPos, SampleSize[variant]) :
        LET id == LinearRegression(models, lr)
            user == User("eval", variant, run, i)
            made1 == [Bound(models, id) EXCEPT ![id].users = Append(@, user)]
            cols == SampledCols(variant)
            data == Data(Frame(s, cols), Frame(s, "price"))
        IN  /\ stream' = Extend(rngPos, s)
            /\ rngPos' = rngPos + SampleSize[variant]
            /\ drew' = drew + 1
            /\ y' = Frame(s, "price")
            /\ X' = Frame(s, cols)
            /\ made' = made + 1
            /\ lr' = id
            /\ IF ~FitOK(csv, data)
               THEN \* lr.fit raises
                    /\ models' = made1
                    /\ pc' = "idle"
                    /\ outcome' = Ended("eval", variant, "failed", "fit")
                    /\ UNCHANGED <<i, r_2, rmse, point_preds>>
               ELSE /\ models' = [made1 EXCEPT ![id].fit = lr_fit(@, data)]
                    /\ rmse' = [rmse EXCEPT
                                  ![variant] = Append(@, ResidSq(models'[id].fit, data))]
                    /\ r_2' = Append(r_2, Score(models'[id].fit, data))
                    /\ IF IsNaN(csv, sample_point, cols)
                       THEN \* lr.predict(sample_point) raises
                            /\ pc' = "idle"
                            /\ outcome' = Ended("eval", variant, "failed", "predict")
                            /\ UNCHANGED <<i, point_preds>>
                       ELSE /\ point_preds' =
                                 [point_preds EXCEPT
                                    ![variant] = Append(@, PredictAt(models'[id].fit,
                                                                  sample_point))]
                            /\ i' = i + 1
                            /\ UNCHANGED <<pc, outcome>>
    /\ UNCHANGED <<inputs, perm, df, df_poly, xy_train, xy_test, X_poly,
                   lr_poly, variant, sample_point, cvNames, run, pre, ref>>

\* The variance of the in-sample scores of a run, which the summary of
\* evaluate holds beside the variance of the query predictions.
score_variance(v) == np_var(rmse[v])

\* The loop ends: the cell has run to its end.
EvalExit ==
    /\ pc = "eval"
    /\ i = Reps
    /\ pc' = "idle"
    /\ outcome' = Ended("eval", variant, "done", None)
    /\ ref' = IF ref[SampledCols(variant)] = <<>>
              THEN [ref EXCEPT ![SampledCols(variant)] = <<Summary(variant)>>]
              ELSE ref
    /\ UNCHANGED <<inputs, stream, rngPos, perm, df, df_poly, X, y, xy_train,
                   xy_test, X_poly, lr, lr_poly, models, variant, i,
                   evalNames, cvNames, run, pre, made, drew>>

\* ------------------------------------------------- the train/test cells
\* X_train, X_test, y_train, y_test = train_test_split(X, y, test_size,
\* random_state=42): the first rows of the permutation are the test rows, the
\* others the train rows, in the permutation's order. When it raises, the
\* four names keep what they were bound to.
train_test_split(Xf, yf, denom) ==
    IF SplitOK(Xf, yf, denom)
    THEN \E p \in Perms(Len(Xf.rows)) :
            LET n == Len(Xf.rows)
                nt == NTest(n, denom)
            IN  /\ perm' = p
                /\ xy_test' = DataAt(Xf, yf, SubSeq(p, 1, nt))
                /\ xy_train' = DataAt(Xf, yf, SubSeq(p, nt + 1, n))
    ELSE UNCHANGED <<perm, xy_train, xy_test>>

\* Lines 243-256: read the csv again, every column; bind y and a two-column
\* X; split with test_size=None.
Split25 ==
    /\ pc = "idle"
    /\ run < MaxRuns
    /\ run' = run + 1
    /\ pre' = <<Globals>>
    /\ made' = 0
    /\ drew' = 0
    /\ df' = "all"
    /\ y' = PriceOf(csv)
    /\ X' = AllRows(csv, "two")
    /\ train_test_split(X', y', DefaultTestDenom)
    /\ outcome' = IF SplitOK(X', y', DefaultTestDenom)
                  THEN Ended("split25", None, "done", None)
                  ELSE Ended("split25", None, "failed", "train_test_split")
    /\ UNCHANGED <<inputs, stream, rngPos, df_poly, X_poly, lr, lr_poly,
                   models, loopNames, evalNames, cvNames, ref>>

\* Lines 372-380: seed the global generator; bind y and a two-column X;
\* split with test_size=0.2.
Split20 ==
    /\ pc = "idle"
    /\ run < MaxRuns
    /\ run' = run + 1
    /\ pre' = <<Globals>>
    /\ made' = 0
    /\ drew' = 0
    /\ rngPos' = np_random_seed(rngPos)
    /\ y' = PriceOf(csv)
    /\ X' = AllRows(csv, "two")
    /\ train_test_split(X', y', TestDenom)
    /\ outcome' = IF SplitOK(X', y', TestDenom)
                  THEN Ended("split20", None, "done", None)
                  ELSE Ended("split20", None, "failed", "train_test_split")
    /\ UNCHANGED <<inputs, stream, df, df_poly, X_poly, lr, lr_poly, models,
                   loopNames, evalNames, cvNames, ref>>

\* Line 390: lr = LinearRegression().
Instantiate ==
    /\ pc = "idle"
    /\ run < MaxRuns
    /\ run' = run + 1
    /\ pre' = <<Globals>>
    /\ made' = 1
    /\ drew' = 0
    /\ lr' = LinearRegression(models, lr)
    /\ models' = Bound(models, lr')
    /\ outcome' = Ended("new", None, "done", None)
    /\ UNCHANGED <<inputs, stream, rngPos, perm, df, df_poly, X, y, xy_train,
                   xy_test, X_poly, lr_poly, loopNames, evalNames, cvNames,
                   ref>>

\* Line 400: lr.fit(X_train, y_train), on whatever the three names are bound
\* to. NameError when lr or X_train is not bound; ValueError from fit on NaN.
FitTrain ==
    /\ pc = "idle"
    /\ run < MaxRuns
    /\ run' = run + 1
    /\ pre' = <<Globals>>
    /\ made' = 0
    /\ drew' = 0
    /\ IF lr = NoModel \/ xy_train.cols = "unbound"
       THEN /\ outcome' = Ended("tt", None, "failed",
                                IF lr = NoModel THEN "lr" ELSE "X_train")
            /\ UNCHANGED models
       ELSE LET user == User("tt", None, run + 1, 0)
                used == [models EXCEPT ![lr].users = Append(@, user)]
            IN  IF FitOK(csv, xy_train)
                THEN /\ models' = [used EXCEPT ![lr].fit = lr_fit(@, xy_train)]
                     /\ outcome' = Ended("tt", None, "done", None)
                ELSE /\ models' = used
                     /\ outcome' = Ended("tt", None, "failed", "fit")
    /\ UNCHANGED <<inputs, stream, rngPos, perm, df, df_poly, X, y, xy_train,
                   xy_test, X_poly, lr, lr_poly, loopNames, evalNames,
                   cvNames, ref>>

\* Lines 498-506: split X_poly and y with test_size=0.2, make lr_poly and
\* fit it on the train rows. NameError when X_poly or y is not bound.
PolySplit ==
    /\ pc = "idle"
    /\ run < MaxRuns
    /\ run' = run + 1
    /\ pre' = <<Globals>>
    /\ drew' = 0
    /\ IF ~IsBound(X_poly) \/ ~IsBound(y)
       THEN /\ outcome' = Ended("polysplit", None, "failed",
                                IF ~IsBound(X_poly) THEN "X_poly" ELSE "y")
            /\ made' = 0
            /\ UNCHANGED <<perm, xy_train, xy_test, lr_poly, models>>
       ELSE IF ~SplitOK(X_poly, y, TestDenom)
       THEN /\ outcome' = Ended("polysplit", None, "failed", "train_test_split")
            /\ made' = 0
            /\ UNCHANGED <<perm, xy_train, xy_test, lr_poly, models>>
       ELSE LET id == LinearRegression(models, lr_poly)
                user == User("polysplit", None, run + 1, 0)
                made1 == [Bound(models, id) EXCEPT ![id].users = Append(@, user)]
            IN  /\ train_test_split(X_poly, y, TestDenom)
                /\ lr_poly' = id
                /\ made' = 1
                /\ IF FitOK(csv, xy_train')
                   THEN /\ models' = [made1 EXCEPT ![id].fit = lr_fit(@, xy_train')]
                        /\ outcome' = Ended("polysplit", None, "done", None)
                   ELSE /\ models' = made1
                        /\ outcome' = Ended("polysplit", None, "failed", "fit")
    /\ UNCHANGED <<inputs, stream, rngPos, df, df_poly, X, y, X_poly, lr,
                   loopNames, evalNames, cvNames, ref>>

\* ------------------------------------------ the k-fold cells (crossValidate)
\* Lines 589-593 and 646-650: KFold(n_splits) raises ValueError below 2
\* splits; the accumulators are emptied; the first step of kf.split(X, y)
\* raises NameError when X or y is not bound and ValueError when X and y
\* differ in length or there are more splits than rows in X.
CVBegin(v) ==
    /\ pc = "idle"
    /\ run < MaxRuns
    /\ run' = run + 1
    /\ pre' = <<Globals>>
    /\ made' = 0
    /\ drew' = 0
    /\ variant' = v
    /\ i' = 0
    /\ folds' = <<>>
    /\ IF K < 2
       THEN /\ outcome' = Ended("cv", v, "failed", "KFold")
            /\ UNCHANGED <<pc, train_r2, test_r2>>
       ELSE /\ train_r2' = empty_list(train_r2)
            /\ test_r2' = empty_list(test_r2)
            /\ IF ~IsBound(X) \/ ~IsBound(y)
               THEN /\ outcome' = Ended("cv", v, "failed",
                                        IF ~IsBound(X) THEN "X" ELSE "y")
                    /\ UNCHANGED pc
               ELSE IF Len(X.rows) # Len(y.rows) \/ K > Len(X.rows)
               THEN /\ outcome' = Ended("cv", v, "failed", "split")
                    /\ UNCHANGED pc
               ELSE /\ outcome' = Ended("cv", v, "running", None)
                    /\ pc' = "cv"
    /\ UNCHANGED <<inputs, stream, rngPos, perm, df, df_poly, X, y, xy_train,
                   xy_test, X_poly, lr, lr_poly, models, evalNames,
                   train_ind, test_ind, ref>>

\* Lines 593-600 and 650-657, one pass of the loop: take the next split of
\* the positions of X, bind X_train .. y_test to the rows X and y hold
\* there, fit the model bound to lr on the train rows (NameError when lr is
\* not bound), record both scores.
CVFold ==
    /\ pc = "cv"
    /\ i < K
    /\ LET tr == TrainInd(Len(X.rows), K, i)
           te == TestInd(Len(X.rows), K, i)
           user == User("cv", variant, run, i)
       IN  /\ train_ind' = tr
           /\ test_ind' = te
           /\ folds' = Append(folds, te)
           /\ xy_train' = DataAt(X, y, tr)
           /\ xy_test' = DataAt(X, y, te)
           /\ IF lr = NoModel
              THEN /\ pc' = "idle"
                   /\ outcome' = Ended("cv", variant, "failed", "lr")
                   /\ UNCHANGED <<i, models, train_r2, test_r2>>
              ELSE LET used == [models EXCEPT ![lr].users = Append(@, user)]
                   IN
                   IF ~FitOK(csv, xy_train')
                   THEN \* lr.fit raises
                        /\ models' = used
                        /\ pc' = "idle"
                        /\ outcome' = Ended("cv", variant, "failed", "fit")
                        /\ UNCHANGED <<i, train_r2, test_r2>>
                   ELSE /\ models' = [used EXCEPT ![lr].fit = lr_fit(@, xy_train')]
                        /\ train_r2' = Append(train_r2,
                                              Score(models'[lr].fit, xy_train'))
                        /\ IF HasNaN(csv, xy_test')
                           THEN \* lr.score(X_test, y_test) raises
                                /\ pc' = "idle"
                                /\ outcome' = Ended("cv", variant, "failed", "score")
                                /\ UNCHANGED <<i, test_r2>>
                           ELSE /\ test_r2' = Append(test_r2,
                                                     Score(models'[lr].fit, xy_test'))
                                /\ i' = i + 1
                                /\ UNCHANGED <<pc, outcome>>
    /\ UNCHANGED <<inputs, stream, rngPos, perm, df, df_poly, X, y, X_poly,
                   lr, lr_poly, variant, evalNames, run, pre, made, drew, ref>>

\* The generator of splits is exhausted: the cell has run to its end.
CVExit ==
    /\ pc = "cv"
    /\ i = K
    /\ pc' = "idle"
    /\ outcome' = Ended("cv", variant, "done", None)
    /\ UNCHANGED <<inputs, stream, rngPos, perm, df, df_poly, X, y, xy_train,
                   xy_test, X_poly, lr, lr_poly, models, variant, i,
                   evalNames, cvNames, run, pre, made, drew, ref>>

\* ---------------------------------------------------------- specifications
\* The whole notebook: any cell, one at a time.
Next ==
    \/ LoadData
    \/ \E v \in Variants : EvalBegin(v)
    \/ EvalRep
    \/ EvalExit
    \/ PolyPrep
    \/ Split25
    \/ Reload
    \/ Split20
    \/ Instantiate
    \/ FitTrain
    \/ PolyPrep3
    \/ PolySplit
    \/ SeedXY
    \/ BindXY
    \/ \E v \in Variants : CVBegin(v)
    \/ CVFold
    \/ CVExit
    \/ PolyPrep2

Spec == Init /\ [][Next]_vars

\* The resampling cells, with the cells that bind the frames they sample.
InitEval ==
    /\ \E n \in 0 .. MaxN : csv \in Datasets(n)
    /\ K = 1
    /\ SampleSize \in [Variants -> 0 .. MaxSample]
    /\ Reps \in 1 .. MaxReps
    /\ (SampleSize["simple"] + SampleSize["poly"]) * Reps <= MaxDraws
    /\ InitGlobals

NextEval ==
    \/ LoadData
    \/ \E v \in Variants : EvalBegin(v)
    \/ EvalRep
    \/ EvalExit
    \/ PolyPrep
    \/ Reload
    \/ PolyPrep2

SpecEval == InitEval /\ [][NextEval]_vars

\* The resampling cells on larger files of numbers, where two rows of a
\* sample can have the same features and different prices.
InitClean ==
    /\ \E n \in 1 .. MaxCleanN : csv = [r \in 1 .. n |-> 0]
    /\ K = 1
    /\ SampleSize \in [Variants -> 0 .. MaxSample]
    /\ Reps \in 1 .. MaxReps
    /\ (SampleSize["simple"] + SampleSize["poly"]) * Reps <= MaxDraws
    /\ InitGlobals

NextClean ==
    \/ \E v \in Variants : EvalBegin(v)
    \/ EvalRep
    \/ EvalExit
    \/ PolyPrep

SpecClean == InitClean /\ [][NextClean]_vars

\* Every cell but the resampling cells.
InitCV ==
    /\ \E n \in 0 .. MaxN : csv \in Datasets(n)
    /\ K \in 1 .. MaxK
    /\ SampleSize = [v \in Variants |-> 0]
    /\ Reps = 1
    /\ InitGlobals

NextCV ==
    \/ LoadData
    \/ PolyPrep
    \/ Split25
    \/ Reload
    \/ Split20
    \/ Instantiate
    \/ FitTrain
    \/ PolyPrep3
    \/ PolySplit
    \/ SeedXY
    \/ BindXY
    \/ \E v \in Variants : CVBegin(v)
    \/ CVFold
    \/ CVExit
    \/ PolyPrep2

SpecCV == InitCV /\ [][NextCV]_vars

\* The k-fold cells on larger files of numbers, with every n_splits that
\* KFold accepts for them, after the cells that bind X, y and lr.
InitFold ==
    /\ \E n \in 2 .. MaxFoldN :
          /\ csv = [r \in 1 .. n |-> 0]
          /\ K \in 2 .. n
    /\ SampleSize = [v \in Variants |-> 0]
    /\ Reps = 1
    /\ InitGlobals

NextFold ==
    \/ Instantiate
    \/ BindXY
    \/ \E v \in Variants : CVBegin(v)
    \/ CVFold
    \/ CVExit

SpecFold == InitFold /\ [][NextFold]_vars

\* ------------------------------------------------------------------ claims
\* C1: for 2 <= k <= n, n the number of rows of the X the k-fold loop splits,
\* the folds the loop takes are a partition of the row positions 0..n-1:
\* every fold is a non-empty block of consecutive positions, no position is
\* in two folds, and once the loop has ended every position is in exactly
\* one fold; the first n mod k folds hold floor(n/k) + 1 rows and the others
\* floor(n/k).
C1_FoldsPartitionRows ==
    (outcome.op = "cv" /\ outcome.status \in {"running", "done"}) =>
        LET n == Len(X.rows)
            small == n \div K
            extra == n % K
        IN  /\ \A f \in 1 .. Len(folds) :
                  /\ Len(folds[f]) >= 1
                  /\ Len(folds[f]) = (IF f <= extra THEN small + 1 ELSE small)
                  /\ RowsOf(folds[f]) \subseteq Rows(X.rows)
                  /\ \A j \in 1 .. (Len(folds[f]) - 1) :
                        folds[f][j + 1] = folds[f][j] + 1
            /\ \A f, g \in 1 .. Len(folds) :
                  f < g => RowsOf(folds[f]) \cap RowsOf(folds[g]) = {}
            /\ outcome.status = "done" =>
                  /\ Len(folds) = K
                  /\ \A r \in Rows(X.rows) :
                        Cardinality({f \in 1 .. K : r \in RowsOf(folds[f])}) = 1
                  /\ Cardinality({f \in 1 .. K : Len(folds[f]) = small + 1}) = extra

C1_Witness ==
    /\ outcome.op = "cv"
    /\ outcome.status = "done"
    /\ K >= 3
    /\ Len(X.rows) % K >= 1
    /\ Len(X.rows) \div K >= 2
    /\ Len(folds) = K

\* C2: every fold of the k-fold loop fits a model instance that nothing has
\* passed to fit before.
C2_FreshModelPerFold ==
    \A m \in 1 .. Len(models) :
        \A j \in 1 .. Len(models[m].users) :
            models[m].users[j].op = "cv" => j = 1

\* C3: every repetition of the resampling loop fits an instance nothing has
\* passed to fit before, no instance is fit by two repetitions, and the score
\* and the query prediction recorded by a repetition of a run that reached
\* its loop come from the instance that repetition made and fit.
C3_FreshModelPerRepetition ==
    /\ \A m \in 1 .. Len(models) :
          \A j \in 1 .. Len(models[m].users) :
              models[m].users[j].op = "eval" => j = 1
    /\ (outcome.op = "eval"
            /\ outcome.at \notin {"df_poly", "drop", "sample_point"}) =>
          /\ \A j \in 1 .. Len(r_2) :
                \E m \in 1 .. Len(models) :
                    /\ models[m].users = <<User("eval", outcome.variant, run, j - 1)>>
                    /\ models[m].fit = r_2[j].fit
          /\ \A j \in 1 .. Len(point_preds[outcome.variant]) :
                \E m \in 1 .. Len(models) :
                    /\ models[m].users = <<User("eval", outcome.variant, run, j - 1)>>
                    /\ point_preds[outcome.variant][j]
                         = PredictAt(models[m].fit, sample_point)

C3_Witness ==
    /\ outcome.op = "eval"
    /\ outcome.status = "done"
    /\ Reps >= 2
    /\ Len(r_2) = Reps
    /\ r_2[1] # r_2[2]
    /\ run >= 2

\* The positions 0..n-1 that are not in s, in order.
Others(n, s) == SelectSeq(Range(0, n), LAMBDA p : p \notin RowsOf(s))

\* C4: when the k-fold loop has ended, train_r2 and test_r2 hold k scores
\* each, and the scores at position f are those of the model fit with the
\* f-th block of positions of X held out: fit on the rows X and y hold at
\* every other position, scored on those and on the held-out block. The two
\* lists are equally long whenever a k-fold run is under way or has ended,
\* well or not.
C4_PairPerFoldInOrder ==
    outcome.op = "cv" =>
        /\ Len(train_r2) = Len(test_r2)
        /\ outcome.status = "done" => (Len(train_r2) = K /\ Len(test_r2) = K)
        /\ pc = "cv" => (Len(train_r2) = i /\ Len(test_r2) = i)
        /\ \A f \in 1 .. Len(test_r2) :
              /\ folds[f][1] = (IF f = 1 THEN 0
                                ELSE folds[f - 1][Len(folds[f - 1])] + 1)
              /\ test_r2[f].on = DataAt(X, y, folds[f])
              /\ test_r2[f].fit = train_r2[f].fit
              /\ train_r2[f].on = train_r2[f].fit
              /\ train_r2[f].fit = DataAt(X, y, Others(Len(X.rows), folds[f]))

\* C5: a run of a resampling cell that reaches its end leaves the same
\* records and the same summary as the first run of that cell on the same
\* frame that did, whatever ran in between.
C5_SameSeedSameSummary ==
    (pc = "idle" /\ outcome.op = "eval" /\ outcome.status = "done") =>
        ref[SampledCols(outcome.variant)] = <<Summary(outcome.variant)>>

C5_Witness ==
    /\ pc = "idle"
    /\ outcome.op = "eval"
    /\ outcome.status = "done"
    /\ Reps >= 2
    /\ Len(r_2) = Reps
    /\ r_2[1] # r_2[2]
    /\ \E m \in 1 .. Len(models) :
          /\ models[m].users # <<>>
          /\ models[m].users[1].op = "eval"
          /\ models[m].users[1].variant = outcome.variant
          /\ models[m].users[1].run < run - 1
          /\ models[m].fit.cols = SampledCols(outcome.variant)

\* C6: a resampling run on a file of no rows or with a sample size of 0, and
\* a k-fold run on an X of no rows, with fewer than 2 splits or with more
\* splits than X has rows, fails before it makes or fits a model and before
\* it draws a sample or a fold, and not as a failure of the model.
C6_FailsBeforeAnyWork ==
    /\ (outcome.op = "eval"
            /\ (Len(csv) = 0 \/ SampleSize[outcome.variant] = 0)) =>
          /\ made = 0
          /\ drew = 0
          /\ pc = "idle" =>
                (outcome.status = "failed" /\ outcome.at \notin {"fit", "predict"})
    /\ (outcome.op = "cv" /\ IsBound(X) /\ IsBound(y)
            /\ (Len(X.rows) = 0 \/ K < 2 \/ K > Len(X.rows))) =>
          /\ made = 0
          /\ folds = <<>>
          /\ \A m \in 1 .. Len(models) :
                \A j \in 1 .. Len(models[m].users) :
                    models[m].users[j].run # run
          /\ pc = "idle"
          /\ outcome.status = "failed"
          /\ outcome.at \in {"KFold", "split"}

\* C7: when fit, predict or score fails in a repetition or in a fold, the
\* run stops there and none of its lists holds a record of the passes made
\* before the failure: each is empty or is what it was before the run.
C7_NoPartialResult ==
    (pc = "idle" /\ outcome.status = "failed"
        /\ outcome.at \in {"fit", "predict", "score"}) =>
        /\ outcome.op = "eval" =>
              /\ r_2 \in {<<>>, pre[1].r_2}
              /\ rmse[outcome.variant] \in {<<>>, pre[1].rmse[outcome.variant]}
              /\ point_preds[outcome.variant]
                   \in {<<>>, pre[1].point_preds[outcome.variant]}
        /\ outcome.op = "cv" =>
              /\ train_r2 \in {<<>>, pre[1].train_r2}
              /\ test_r2 \in {<<>>, pre[1].test_r2}

\* C8: when a resampling run or a k-fold run has ended, well or not, the
\* dataset and every module-level name (the frames, the lists, the model
\* bound to lr, the global generator) are what they were when it began.
C8_NothingChanged ==
    (pc = "idle" /\ outcome.op \in {"eval", "cv"}) => Globals = pre[1]

\* C9: the query row is in none of the samples the repetitions of a
\* resampling run fit on.
C9_QueryRowNotSampled ==
    outcome.op = "eval" =>
        \A m \in 1 .. Len(models) :
            (/\ models[m].users # <<>>
             /\ models[m].users[1].op = "eval"
             /\ models[m].users[1].run = run)
                => sample_point \notin RowsOf(models[m].fit.rows)

\* C10: a resampling run of one repetition that reaches its end has a
\* variance of query predictions of 0 and a variance of in-sample scores
\* of 0.
C10_OneRepetitionNoVariance ==
    (outcome.op = "eval" /\ outcome.status = "done" /\ Reps = 1) =>
        /\ Summary(outcome.variant).var_preds = 0
        /\ score_variance(outcome.variant) = 0

C10_Witness ==
    /\ outcome.op = "eval"
    /\ outcome.status = "done"
    /\ Reps = 1
    /\ SampleSize[outcome.variant] >= 2
    /\ Len(point_preds[outcome.variant]) = 1
    /\ point_preds[outcome.variant][1] > 0
    /\ Len(rmse[outcome.variant]) = 1
    /\ rmse[outcome.variant][1] > 0

\* C11: in every pass of the k-fold loop the held-out positions are the next
\* block of positions of X and the train positions are all the others, each
\* once; X_train .. y_test hold the rows X and y hold there; the scores a
\* pass records are those of the model as that pass fit it, on that pass's
\* train rows: the train score measured on the train rows and the
\* validation score on the held-out rows.
C11_FoldFitBeforeScores ==
    (outcome.op = "cv" /\ folds # <<>>) =>
        LET f == Len(folds)
        IN  /\ pc = "cv" => f = i
            /\ test_ind = folds[f]
            /\ test_ind[1] = (IF f = 1 THEN 0
                              ELSE folds[f - 1][Len(folds[f - 1])] + 1)
            /\ RowsOf(train_ind) \cap RowsOf(test_ind) = {}
            /\ RowsOf(train_ind) \cup RowsOf(test_ind) = Rows(X.rows)
            /\ Len(train_ind) + Len(test_ind) = Len(X.rows)
            /\ xy_train = DataAt(X, y, train_ind)
            /\ xy_test = DataAt(X, y, test_ind)
            /\ Len(train_r2) \in {f - 1, f}
            /\ Len(test_r2) \in {f - 1, f}
            /\ Len(test_r2) <= Len(train_r2)
            /\ Len(train_r2) = f =>
                  /\ models[lr].fit = xy_train
                  /\ train_r2[f] = [fit |-> xy_train, on |-> xy_train]
            /\ Len(test_r2) = f =>
                  test_r2[f] = [fit |-> xy_train, on |-> xy_test]

C11_Witness ==
    /\ outcome.op = "cv"
    /\ pc = "cv"
    /\ i >= 2
    /\ Len(test_r2) = i
    /\ Len(test_ind) >= 2
    /\ models[lr].fit = xy_train
    /\ Len(models[lr].users) >= 2

\* C12: every repetition of a resampling run that reached its loop with a
\* sample size of at least 1 draws as
\* many rows as the cell's sample size from the generator, one after the
\* other (a row may come twice), each a row of the file, fits on them, and
\* appends one in-sample score, one rmse and one prediction at the query
\* row; the query row is the one drawn before the loop for every
\* repetition; when the run has ended, well or not, each list holds Reps
\* records, all of this run.
C12_OneRecordPerRepetition ==
    (outcome.op = "eval"
        /\ outcome.at \notin {"df_poly", "drop", "sample_point"}
        /\ SampleSize[outcome.variant] >= 1) =>
        LET v == outcome.variant
            size == SampleSize[v]
        IN  /\ sample_point = stream[1]
            /\ sample_point \in Rows(csv)
            /\ Len(r_2) = i
            /\ Len(rmse[v]) = i
            /\ Len(point_preds[v]) = i
            /\ drew = i
            /\ made = i
            /\ rngPos = 1 + i * size
            /\ pc = "idle" => i = Reps
            /\ \A j \in 1 .. i :
                  /\ Len(r_2[j].fit.rows) = size
                  /\ \A a \in 1 .. size :
                        /\ r_2[j].fit.rows[a] \in Rows(csv)
                        /\ r_2[j].fit.rows[a] = stream[1 + (j - 1) * size + a]
                  /\ r_2[j].fit.y = r_2[j].fit.rows
                  /\ r_2[j].fit.cols = SampledCols(v)
                  /\ r_2[j].on = r_2[j].fit
                  /\ rmse[v][j] = ResidSq(r_2[j].fit, r_2[j].fit)
                  /\ point_preds[v][j] = PredictAt(r_2[j].fit, sample_point)
                  /\ \E m \in 1 .. Len(models) :
                        /\ models[m].users # <<>>
                        /\ models[m].users[1].run = run
                        /\ models[m].users[1].it = j - 1
                        /\ models[m].fit = r_2[j].fit
            /\ i >= 1 => (X.rows = r_2[i].fit.rows /\ y.rows = X.rows)

====
